---------------------------- MODULE Spec2Model ----------------------------
(***************************************************************************)
(* koishi-plugin-skia-canvas: platform resolution, registry fetch, archive *)
(* extraction and loading of the native canvas binding, and the start-up   *)
(* font installation.                                                      *)
(*                                                                         *)
(* The source tree holds three revisions of the service module             *)
(*   "index"  src/src/index.ts      (inline handleFile, tar library)        *)
(*   "part1"  src/unnamed/part_001  (switch resolver, downloader module)    *)
(*   "part2"  src/unnamed/part_002  (platformArchMap, downloader module)    *)
(* and two revisions of extractTarGz in src/unnamed/part_000               *)
(*   "A"  lines 23-75   (waits for the write stream's 'finish')            *)
(*   "B"  lines 114-151 (advances on the entry stream's 'end').            *)
(* A behaviour fixes one revision of each in its initial state.            *)
(*                                                                         *)
(* Strings are sequences of tokens: 'skia.linux-x64-gnu' is                *)
(* <<"skia", ".", "linux", "-", "x64", "-", "gnu">>.  A path is a sequence *)
(* of segments below the base directory.                                   *)
(*                                                                         *)
(* Spec is the service from start() on.  SpecZip is one call of extractZip *)
(* on an archive; SpecFonts is the font list of a service whose binding is *)
(* wired, with the chat commands that change it.                           *)
(***************************************************************************)
EXTENDS Integers, Sequences, FiniteSets, TLC

VARIABLES
    rev,               \* revision of the service module
    helper,            \* revision of extractTarGz ("none" for rev "index")
    platform,          \* process.platform
    arch,              \* process.arch
    env,               \* what isMusl can observe of the host
    pc,                \* position of start()
    nodeName,          \* artifact name selected by getNativeBinding
    localFileExisted,  \* fs.existsSync(nodePath) at the call
    muslCalls,         \* number of isMusl() executions of this call
    err,               \* error start() rejected with
    binding,           \* TRUE when the native exports are wired on the service
    metaRequests,      \* registry metadata requests of this call
    downloads,         \* downloader.download() calls of this call
    extractions,       \* extractions started by this call
    lastMeta,          \* outcome of the metadata request of this call
    lastStatus,        \* downloadStatus of the last download ("none", "threw")
    skipped,           \* the library skipped the transfer of that download
    thrown,            \* what handleFile raised in this call
    archiveOnDisk,     \* the tarball file lies in nodeDir
    dirs,              \* directories below nodeDir
    files,             \* path -> "writing" | "done", files below nodeDir
    opened,            \* paths createWriteStream was called on, this extraction
    ex,                \* extractTarGz: promise, entry being handled, progress
    starts,            \* number of start() calls so far
    history,           \* outcomes of the earlier start() calls
    fontState,         \* font installation of this service instance
    zip,               \* a call of extractZip: archive, position, disk
    fonts              \* the font list of a running service and the library's

service == <<rev, helper, platform, arch, env, pc, nodeName, localFileExisted,
          muslCalls, err, binding, metaRequests, downloads, extractions,
          lastMeta, lastStatus, skipped, thrown, archiveOnDisk, dirs, files,
          opened, ex, starts, history, fontState>>

vars == <<service, zip, fonts>>

config == <<rev, helper, platform, arch, env>>

-----------------------------------------------------------------------------
(* Bounds *)

MaxEntries == 2      \* entries of one tar archive
MaxStarts == 2       \* start() calls (service restarts) in one behaviour
MaxZipEntries == 3   \* entries of one zip archive
MaxCommands == 2     \* chat commands handled in one behaviour

-----------------------------------------------------------------------------
(* Inputs *)

Revs == {"index", "part1", "part2"}
Platforms == {"android", "win32", "darwin", "freebsd", "linux", "sunos"}
Archs == {"arm64", "arm", "x64", "ia32", "mips"}

\* process.report present / header.glibcVersionRuntime present / `which ldd`
\* and the read of the loader: throws, or the content has 'musl' or not.
LibcEnvs == [hasReport : BOOLEAN, glibcVersionRuntime : BOOLEAN,
             ldd : {"throws", "musl", "glibc"}]

None == <<>>

Last(s) == s[Len(s)]
Contains(s, tok) == \E i \in DOMAIN s : s[i] = tok
EndsWith(s, suf) ==
    /\ Len(s) >= Len(suf)
    /\ SubSeq(s, Len(s) - Len(suf) + 1, Len(s)) = suf

-----------------------------------------------------------------------------
(* libc detection *)

isMuslLdd(e) == IF e.ldd = "throws" THEN TRUE ELSE e.ldd = "musl"

isMusl(r, e) ==
    IF r = "part2"
    THEN isMuslLdd(e)
    ELSE IF ~e.hasReport THEN isMuslLdd(e) ELSE ~e.glibcVersionRuntime

-----------------------------------------------------------------------------
(* Platform resolution *)

Name(p, rest) == <<"skia", ".", p>> \o rest

\* mutant: the two branches of the libc ternary exchanged
LinuxLibcNameSwapped(a, musl) ==
    IF musl
    THEN Name("linux", <<"-", a, "-", "gnu">>)
    ELSE Name("linux", <<"-", a, "-", "musl">>)

\* isMusl() ? 'skia.linux-<arch>-musl' : 'skia.linux-<arch>-gnu'
LinuxLibcName(a, musl) ==
    IF musl
    THEN Name("linux", <<"-", a, "-", "musl">>)
    ELSE Name("linux", <<"-", a, "-", "gnu">>)

Unsupported(msg, calls) ==
    [kind |-> "UnsupportedError", name |-> None, message |-> msg, isMuslCalls |-> calls]
Selected(name, calls) ==
    [kind |-> "name", name |-> name, message |-> None, isMuslCalls |-> calls]

\* the nested switch of index.ts and part_001; isMusl() runs inside the
\* linux x64 / arm64 cases only
ResolveSwitch(r, p, a, e) ==
    CASE p = "android" ->
           CASE a = "arm64" -> Selected(Name("android", <<"-", "arm64">>), 0)
             [] a = "arm" -> Selected(Name("android", <<"-", "arm", "-", "eabi">>), 0)
             [] OTHER -> Unsupported(<<"Unsupported architecture on Android ", a>>, 0)
      [] p = "win32" ->
           CASE a = "x64" -> Selected(Name("win32", <<"-", "x64", "-", "msvc">>), 0)
             [] a = "ia32" -> Selected(Name("win32", <<"-", "ia32", "-", "msvc">>), 0)
             [] a = "arm64" -> Selected(Name("win32", <<"-", "arm64", "-", "msvc">>), 0)
             [] OTHER -> Unsupported(<<"Unsupported architecture on Windows: ", a>>, 0)
      [] p = "darwin" ->
           CASE a = "x64" -> Selected(Name("darwin", <<"-", "x64">>), 0)
             [] a = "arm64" -> Selected(Name("darwin", <<"-", "arm64">>), 0)
             [] OTHER -> Unsupported(<<"Unsupported architecture on macOS: ", a>>, 0)
      [] p = "freebsd" ->
           IF a # "x64"
           THEN Unsupported(<<"Unsupported architecture on FreeBSD: ", a>>, 0)
           ELSE Selected(Name("freebsd", <<"-", "x64">>), 0)
      [] p = "linux" ->
           CASE a = "x64" -> Selected(LinuxLibcName("x64", isMusl(r, e)), 1)
             [] a = "arm64" -> Selected(LinuxLibcName("arm64", isMusl(r, e)), 1)
             [] a = "arm" -> Selected(Name("linux", <<"-", "arm", "-", "gnueabihf">>), 0)
             [] OTHER -> Unsupported(<<"Unsupported architecture on Linux: ", a>>, 0)
      [] OTHER ->
           Unsupported(<<"Unsupported OS: ", p, ", architecture: ", a>>, 0)

\* the object literal of part_002: both isMusl() calls run while the literal
\* is built, whatever the platform
platformArchMap(r, e) ==
    [android |-> [arm64 |-> Name("android", <<"-", "arm64">>),
                  arm |-> Name("android", <<"-", "arm", "-", "eabi">>)],
     win32 |-> [x64 |-> Name("win32", <<"-", "x64", "-", "msvc">>),
                ia32 |-> Name("win32", <<"-", "ia32", "-", "msvc">>),
                arm64 |-> Name("win32", <<"-", "arm64", "-", "msvc">>)],
     darwin |-> [x64 |-> Name("darwin", <<"-", "x64">>),
                 arm64 |-> Name("darwin", <<"-", "arm64">>)],
     freebsd |-> [x64 |-> Name("freebsd", <<"-", "x64">>)],
     linux |-> [x64 |-> LinuxLibcName("x64", isMusl(r, e)),
                arm64 |-> LinuxLibcName("arm64", isMusl(r, e)),
                arm |-> Name("linux", <<"-", "arm", "-", "gnueabihf">>)]]

ResolveMap(r, p, a, e) ==
    LET m == platformArchMap(r, e) IN
    IF p \notin DOMAIN m
    THEN Unsupported(<<"Unsupported OS: ", p, ", architecture: ", a>>, 2)
    ELSE IF a \notin DOMAIN m[p]
    THEN Unsupported(<<"Unsupported architecture on ", p, ": ", a>>, 2)
    ELSE Selected(m[p][a], 2)

\* mutant: an unknown platform or architecture falls back to a default artifact
ResolveWithDefault(r, p, a, e) ==
    LET res == IF r = "part2" THEN ResolveMap(r, p, a, e) ELSE ResolveSwitch(r, p, a, e)
    IN  IF res.kind = "UnsupportedError"
        THEN Selected(Name("linux", <<"-", "x64", "-", "gnu">>), res.isMuslCalls)
        ELSE res

Resolve(r, p, a, e) ==
    IF r = "part2" THEN ResolveMap(r, p, a, e) ELSE ResolveSwitch(r, p, a, e)

-----------------------------------------------------------------------------
(* Paths and the disk *)

nodeDir == <<"nodeDir">>
fontDir == <<"fontDir">>
defaultfont == <<"lxgw-wenkai-lite">>

nodeFile(name) == name \o <<".", "node">>
\* path.join(nodeDir, 'package', nodeFile)
nodePath(name) == <<nodeDir, <<"package">>, nodeFile(name)>>

Parent(path) == SubSeq(path, 1, Len(path) - 1)

\* path.join(dir, name): the segments of name are appended to dir, and a '..'
\* segment removes the segment before it; dir and the result are paths below
\* the base directory (<<>>)
DotDot == <<"..">>
RECURSIVE pathJoin(_, _)
pathJoin(dir, segments) ==
    IF segments = <<>>
    THEN dir
    ELSE IF Head(segments) = DotDot
    THEN pathJoin(IF dir = <<>> THEN dir ELSE Parent(dir), Tail(segments))
    ELSE pathJoin(Append(dir, Head(segments)), Tail(segments))
\* the directories mkdir -p creates for path: path and all its ancestors
Ancestors(path) == {SubSeq(path, 1, n) : n \in 1..Len(path)}

exists(path) == path \in dirs \/ path \in DOMAIN files
WriteFile(path, st) ==
    [q \in DOMAIN files \cup {path} |-> IF q = path THEN st ELSE files[q]]

\* fs.existsSync(dir) || fs.mkdirSync(dir, {recursive: true})
ensureDirectoryExists(dir) == IF exists(dir) THEN dirs ELSE dirs \cup Ancestors(dir)

-----------------------------------------------------------------------------
(* Errors *)

NoError == [kind |-> "none", message |-> None]
DownloadError(msg) == [kind |-> "DownloadError", message |-> msg]
TypeError(msg) == [kind |-> "TypeError", message |-> msg]
Error(msg) == [kind |-> "Error", message |-> msg]

\* the catch of getNativeBinding: a DownloadError is rethrown, anything else
\* becomes the generic error
getNativeBindingCatch(e, name) ==
    IF e.kind = "DownloadError"
    THEN e
    ELSE Error(<<"Failed to use ", "nodeDir", "/", "package", "/">> \o nodeFile(name)
               \o <<" on ", platform, "-", arch>>)

-----------------------------------------------------------------------------
(* handleFile: what each step raises *)

MetaOutcomes == {"fail", "nodist", "notarball", "empty", "ok"}
DownloadOutcomes == {"threw", "COMPLETE", "ABORTED"}

\* downloader.download(): with skipExistingFileName and a file of the final
\* name in the directory the library makes its request, then skips the
\* transfer and resolves with downloadStatus 'ABORTED' and no filePath
downloadSkips(skipExistingFileName, onDisk) == skipExistingFileName /\ onDisk
DownloadResults(skipExistingFileName, onDisk) ==
    IF downloadSkips(skipExistingFileName, onDisk)
    THEN {"threw", "ABORTED"}
    ELSE DownloadOutcomes

\* the metadata request and the read of dist.tarball
handleFileMeta(r, outcome) ==
    IF r = "index"
    THEN CASE outcome = "fail" -> DownloadError(<<"Failed to fetch from URL: ">>)
           [] outcome = "nodist" -> TypeError(<<"Cannot read properties of undefined">>)
           [] outcome \in {"notarball", "empty"} -> DownloadError(<<"Failed to get File url">>)
           [] OTHER -> NoError
    ELSE CASE outcome \in {"fail", "nodist"} -> DownloadError(<<"Failed to fetch from URL: ">>)
           [] outcome \in {"notarball", "empty"} ->
                DownloadError(<<"Failed to get the binary url from ">>)
           [] OTHER -> NoError

\* mutant: only a thrown download is an error, the status is not tested
handleFileDownloadUntested(r, outcome) ==
    IF outcome = "threw"
    THEN IF r = "index"
         THEN DownloadError(<<"Failed to download the binary file: ">>)
         ELSE Error(<<"network">>)
    ELSE NoError

\* downloader.download() and the test of downloadStatus
handleFileDownload(r, outcome) ==
    IF r = "index"
    THEN IF outcome = "COMPLETE"
         THEN NoError
         ELSE DownloadError(<<"Failed to download the binary file: ">>)
    ELSE CASE outcome = "threw" -> Error(<<"network">>)
           [] outcome # "COMPLETE" -> DownloadError(<<"Download was aborted">>)
           [] OTHER -> NoError

\* a rejected extraction inside handleFile
handleFileExtractError(r) ==
    IF r = "index"
    THEN DownloadError(<<"Failed to download the binary file: ">>)
    ELSE Error(<<"extract">>)

\* downloadFonts: download() and the test of downloadStatus; the kind of the
\* error raised
downloadFonts(outcome) ==
    CASE outcome = "threw" -> "Error"
      [] outcome # "COMPLETE" -> "DownloadError"
      [] OTHER -> "none"

-----------------------------------------------------------------------------
(* extractTarGz *)

NoEntry == [type |-> "none", name |-> None]
ExIdle == [promise |-> "none", root |-> None, cur |-> NoEntry, waiting |-> "none",
           emitted |-> 0, active |-> FALSE]
ExBegin(root) == [promise |-> "pending", root |-> root, cur |-> NoEntry,
                  waiting |-> "none", emitted |-> 0, active |-> TRUE]

\* the headers (type, segments of header.name) an archive unpacked below root
\* may hold; a name may have '..' segments
HeaderSet(root) ==
    IF root = nodeDir
    THEN {[type |-> "directory", name |-> <<<<"package">>>>],
          [type |-> "file", name |-> <<<<"package">>, nodeFile(nodeName)>>],
          [type |-> "symlink", name |-> <<<<"package">>, <<"link">>>>],
          [type |-> "file", name |-> <<DotDot, <<"evil", ".", "node">>>>]}
    ELSE {[type |-> "directory", name |-> <<defaultfont>>],
          [type |-> "file", name |-> <<defaultfont, <<"font", ".", "ttf">>>>]}

\* the entries with name the outputPath: path.join(outputDir, header.name)
EntrySet(root) ==
    {[type |-> h.type, name |-> pathJoin(<<root>>, h.name)] : h \in HeaderSet(root)}

\* marker: the file the default font download saves is in fontDir
\* (<fontDir>/<defaultfont>.tar.gz; the .ttf file of index.ts); existed: it was
\* there when the font installation of this call began; skipped: the library
\* skipped the transfer
FontIdle(marker) == [task |-> "idle", dirLoaded |-> FALSE, defaultLoaded |-> FALSE,
                     requests |-> 0, lastStatus |-> "none", error |-> "none",
                     marker |-> marker, existed |-> FALSE, skipped |-> FALSE]

-----------------------------------------------------------------------------
(* extractZip *)

\* names of zip entries, as the tokens of the string
ZipNames == {<<"fonts", "/">>, <<"fonts", "/", "a.ttf">>, <<"b.ttf">>,
             <<"..", "/", "evil.ttf">>}

\* fileName.endsWith('/')
endsWithSlash(fileName) == fileName # <<>> /\ Last(fileName) = "/"

\* the segments of a name: what stands between the separators
RECURSIVE segmentsOf(_)
segmentsOf(fileName) ==
    IF fileName = <<>>
    THEN <<>>
    ELSE IF Head(fileName) = "/"
    THEN segmentsOf(Tail(fileName))
    ELSE <<<<Head(fileName)>>>> \o segmentsOf(Tail(fileName))

\* Buffer.from(file): a copy of the bytes
BufferFrom(file) == [i \in DOMAIN file |-> file[i] % 256]

\* the entries of unzipSync's result: a directory marker has no bytes
ZipEntrySet ==
    {e \in [name : ZipNames, data : {<<>>, <<80, 75>>}] :
       endsWithSlash(e.name) => e.data = <<>>}

\* Object.entries(unzipped): the names are keys of one object, so distinct
ZipArchives ==
    UNION {{a \in [1..n -> ZipEntrySet] :
              \A i, j \in 1..n : a[i].name = a[j].name => i = j} : n \in 0..MaxZipEntries}

\* the archive lies in the font directory
zipOutputDir == <<fontDir>>

ZipIdle == [state |-> "idle", entries |-> <<>>, handled |-> 0, error |-> "none",
            dirs |-> {<<>>, zipOutputDir}, files |-> <<>>]
ZipCalled(archive) == [ZipIdle EXCEPT !.state = "called", !.entries = archive]

-----------------------------------------------------------------------------
(* The font list *)

\* families the library knows when it is loaded, families of the font files a
\* user may have in the font directory or register, the family of the default
\* font
SystemFonts == <<"Arial">>
FontNames == {"Extra", "Other"}
DefaultFamily == "LXGW WenKai Lite"

Elements(seq) == {seq[i] : i \in DOMAIN seq}

\* the library registers the fonts of a set of files: a family it does not
\* know yet is added at the end of GlobalFonts.families
RECURSIVE registerAll(_, _)
registerAll(families, found) ==
    IF found = {}
    THEN families
    ELSE LET f == CHOOSE x \in found : TRUE IN
         registerAll(IF Contains(families, f) THEN families ELSE Append(families, f),
                     found \ {f})

\* fonts.slice(-n).concat(fonts.slice(0, -n))
moveToFront(list, n) ==
    IF n = 0 \/ n >= Len(list)
    THEN list
    ELSE SubSeq(list, Len(list) - n + 1, Len(list)) \o SubSeq(list, 1, Len(list) - n)

\* state: position of start() / loadExtraFonts; register: the font a pending
\* registerFont command downloads; dirFonts: families of the font files in the
\* font directory; marker: <fontDir>/<defaultfont>.tar.gz and its fonts exist
FontsIdle == [state |-> "idle", families |-> SystemFonts, fontsArray |-> <<>>,
              extraFontNum |-> 0, dirFonts |-> {}, marker |-> FALSE,
              register |-> "none", commands |-> 0]
FontsWired(onDisk, marker) ==
    [FontsIdle EXCEPT !.state = "wired", !.dirFonts = onDisk, !.marker = marker]

-----------------------------------------------------------------------------
(* Initial state *)

\* off linux no name depends on what isMusl reads, and one host is taken
DefaultEnv == [hasReport |-> TRUE, glibcVersionRuntime |-> FALSE, ldd |-> "throws"]

Init ==
    /\ rev \in Revs
    /\ helper \in (IF rev = "index" THEN {"none"} ELSE {"A", "B"})
    /\ platform \in Platforms
    /\ arch \in Archs
    /\ env \in (IF platform = "linux" THEN LibcEnvs ELSE {DefaultEnv})
    /\ pc = "start"
    /\ nodeName = None
    /\ localFileExisted = FALSE
    /\ muslCalls = 0
    /\ err = NoError
    /\ binding = FALSE
    /\ metaRequests = 0
    /\ downloads = 0
    /\ extractions = 0
    /\ lastMeta = "none"
    /\ lastStatus = "none"
    /\ skipped = FALSE
    /\ thrown = NoError
    /\ archiveOnDisk = FALSE
    /\ dirs = {<<>>}
    /\ files = [q \in {} |-> "done"]
    /\ opened = {}
    /\ ex = ExIdle
    /\ starts = 1
    /\ history = <<>>
    /\ fontState \in {FontIdle(m) : m \in BOOLEAN}
    /\ zip = ZipIdle
    /\ fonts = FontsIdle

-----------------------------------------------------------------------------
(* start() and getNativeBinding *)

\* mutant: handleFile runs whether or not the binary is there
afterExistsSyncAlways(existed) == "meta"

\* if (!localFileExisted) await handleFile(...); then the module is loaded
afterExistsSync(existed) == IF existed THEN "load" ELSE "meta"

\* start() up to the try block of getNativeBinding: the two mkdir calls,
\* platform resolution and the existsSync test
Start ==
    /\ pc = "start"
    /\ LET res == Resolve(rev, platform, arch, env) IN
       /\ muslCalls' = res.isMuslCalls
       /\ dirs' = dirs \cup {<<nodeDir>>, <<fontDir>>}
       /\ IF res.kind = "UnsupportedError"
          THEN /\ pc' = "failed"
               /\ err' = [kind |-> "UnsupportedError", message |-> res.message]
               /\ UNCHANGED <<nodeName, localFileExisted>>
          ELSE /\ nodeName' = res.name
               /\ localFileExisted' = (nodePath(res.name) \in DOMAIN files)
               /\ pc' = afterExistsSync(nodePath(res.name) \in DOMAIN files)
               /\ err' = err
    /\ UNCHANGED <<config, zip, fonts, binding, metaRequests, downloads, extractions,
                   lastMeta, lastStatus, skipped, thrown, archiveOnDisk, files, opened,
                   ex, starts, history, fontState>>

\* handleFile: the registry metadata request
Meta ==
    /\ pc = "meta"
    /\ \E outcome \in MetaOutcomes :
         LET e == handleFileMeta(rev, outcome) IN
         /\ metaRequests' = metaRequests + 1
         /\ lastMeta' = outcome
         /\ thrown' = e
         /\ IF e.kind = "none"
            THEN pc' = "download" /\ err' = err
            ELSE pc' = "failed" /\ err' = getNativeBindingCatch(e, nodeName)
    /\ UNCHANGED <<config, zip, fonts, nodeName, localFileExisted, muslCalls, binding,
                   downloads, extractions, lastStatus, skipped, archiveOnDisk, dirs,
                   files, opened, ex, starts, history, fontState>>

\* handleFile: downloader.download(); on COMPLETE the extraction is started
Download ==
    /\ pc = "download"
    /\ \E outcome \in DownloadResults(rev # "index", archiveOnDisk) :
         LET e == handleFileDownload(rev, outcome) IN
         /\ downloads' = downloads + 1
         /\ lastStatus' = outcome
         /\ skipped' = downloadSkips(rev # "index", archiveOnDisk)
         /\ thrown' = e
         /\ archiveOnDisk' = (archiveOnDisk \/ outcome = "COMPLETE")
         /\ IF e.kind = "none"
            THEN /\ pc' = "extract"
                 /\ err' = err
                 /\ extractions' = extractions + 1
                 /\ opened' = {}
                 /\ ex' = IF rev = "index" THEN ex ELSE ExBegin(nodeDir)
            ELSE /\ pc' = "failed"
                 /\ err' = getNativeBindingCatch(e, nodeName)
                 /\ UNCHANGED <<extractions, opened, ex>>
    /\ UNCHANGED <<config, zip, fonts, nodeName, localFileExisted, muslCalls, binding,
                   metaRequests, lastMeta, dirs, files, starts, history,
                   fontState>>

\* the tar library's extract() of index.ts, taken as one step of the library:
\* it fails, or unpacks the file entries of the archive with their directories
LibExtract ==
    /\ pc = "extract"
    /\ rev = "index"
    /\ \/ /\ pc' = "failed"
          /\ thrown' = handleFileExtractError(rev)
          /\ err' = getNativeBindingCatch(handleFileExtractError(rev), nodeName)
          /\ UNCHANGED <<dirs, files>>
       \/ \E fs \in SUBSET {e \in EntrySet(nodeDir) : e.type = "file"} :
            /\ dirs' = dirs \cup UNION {Ancestors(Parent(e.name)) : e \in fs}
            /\ files' = [q \in DOMAIN files \cup {e.name : e \in fs} |->
                           IF q \in {e.name : e \in fs} THEN "done" ELSE files[q]]
            /\ pc' = "load"
            /\ UNCHANGED <<err, thrown>>
    /\ UNCHANGED <<config, zip, fonts, nodeName, localFileExisted, muslCalls, binding,
                   metaRequests, downloads, extractions, lastMeta, lastStatus, skipped,
                   archiveOnDisk, opened, ex, starts, history, fontState>>

\* where the awaiting caller of extractTarGz continues once the promise settles
AfterExtract(root, settled) ==
    IF root = nodeDir
    THEN /\ pc' = IF settled = "resolved" THEN "load" ELSE "failed"
         /\ thrown' = IF settled = "resolved" THEN thrown ELSE handleFileExtractError(rev)
         /\ err' = IF settled = "resolved"
                   THEN err
                   ELSE getNativeBindingCatch(handleFileExtractError(rev), nodeName)
         /\ fontState' = fontState
    ELSE /\ fontState' = IF settled = "resolved"
                         THEN [fontState EXCEPT !.task = "done", !.defaultLoaded = TRUE]
                         ELSE [fontState EXCEPT !.task = "noDefault", !.error = "Error"]
         /\ UNCHANGED <<pc, err, thrown>>

Running == pc # "crashed" /\ ex.active

\* readFileSync / gunzipSync throw, or the tar parser emits 'error'
ExError ==
    /\ Running
    /\ ex.cur = NoEntry
    /\ ex.promise = "pending"
    /\ ex' = [ex EXCEPT !.promise = "rejected", !.active = FALSE]
    /\ AfterExtract(ex.root, "rejected")
    /\ UNCHANGED <<config, zip, fonts, nodeName, localFileExisted, muslCalls, binding,
                   metaRequests, downloads, extractions, lastMeta, lastStatus, skipped,
                   archiveOnDisk, dirs, files, opened, starts, history>>

\* the 'entry' handler on a directory entry
ExEntryDirectory ==
    /\ Running
    /\ ex.cur = NoEntry
    /\ ex.emitted < MaxEntries
    /\ \E e \in {x \in EntrySet(ex.root) : x.type = "directory"} :
         /\ dirs' = IF helper = "A"
                    THEN ensureDirectoryExists(e.name)
                    ELSE dirs \cup Ancestors(e.name)
         /\ ex' = [ex EXCEPT !.cur = e, !.waiting = "streamEnd", !.emitted = @ + 1]
    /\ UNCHANGED <<config, zip, fonts, pc, nodeName, localFileExisted, muslCalls, err,
                   binding, metaRequests, downloads, extractions, lastMeta,
                   lastStatus, skipped, thrown, archiveOnDisk, files, opened, starts,
                   history, fontState>>

\* the 'entry' handler on an entry that is neither a directory nor a file
ExEntryOther ==
    /\ Running
    /\ ex.cur = NoEntry
    /\ ex.emitted < MaxEntries
    /\ \E e \in {x \in EntrySet(ex.root) : x.type \notin {"directory", "file"}} :
         ex' = [ex EXCEPT !.cur = e, !.waiting = "streamEnd", !.emitted = @ + 1]
    /\ UNCHANGED <<config, zip, fonts, pc, nodeName, localFileExisted, muslCalls, err,
                   binding, metaRequests, downloads, extractions, lastMeta,
                   lastStatus, skipped, thrown, archiveOnDisk, dirs, files, opened,
                   starts, history, fontState>>

\* helper A on a file entry: the parent directory is ensured, the write stream
\* is opened and next waits for its 'finish'
ExEntryFileA ==
    /\ Running
    /\ helper = "A"
    /\ ex.cur = NoEntry
    /\ ex.emitted < MaxEntries
    /\ \E e \in {x \in EntrySet(ex.root) : x.type = "file"} :
         /\ dirs' = ensureDirectoryExists(Parent(e.name))
         /\ opened' = opened \cup {e.name}
         /\ files' = WriteFile(e.name, "writing")
         /\ ex' = [ex EXCEPT !.cur = e, !.waiting = "finish", !.emitted = @ + 1]
    /\ UNCHANGED <<config, zip, fonts, pc, nodeName, localFileExisted, muslCalls, err,
                   binding, metaRequests, downloads, extractions, lastMeta,
                   lastStatus, skipped, thrown, archiveOnDisk, starts, history,
                   fontState>>

\* helper B on a file entry: the write stream is opened as is and next waits
\* for the 'end' of the entry's stream.  Opening below a missing directory
\* fails, and the write stream has no 'error' listener of the helper: the
\* process dies of the unhandled 'error' event, or the pipe swallows it and the
\* entry's stream never ends.
ExEntryFileB ==
    /\ Running
    /\ helper = "B"
    /\ ex.cur = NoEntry
    /\ ex.emitted < MaxEntries
    /\ \E e \in {x \in EntrySet(ex.root) : x.type = "file"} :
         /\ opened' = opened \cup {e.name}
         /\ IF Parent(e.name) \in dirs
            THEN /\ files' = WriteFile(e.name, "writing")
                 /\ ex' = [ex EXCEPT !.cur = e, !.waiting = "streamEnd", !.emitted = @ + 1]
                 /\ pc' = pc
            ELSE /\ files' = files
                 /\ ex' = [ex EXCEPT !.cur = e, !.waiting = "none", !.emitted = @ + 1]
                 /\ pc' \in {"crashed", pc}
    /\ UNCHANGED <<config, zip, fonts, nodeName, localFileExisted, muslCalls, err,
                   binding, metaRequests, downloads, extractions, lastMeta,
                   lastStatus, skipped, thrown, archiveOnDisk, dirs, starts, history,
                   fontState>>

\* 'end' of the current entry's stream calls next
ExStreamEnd ==
    /\ Running
    /\ ex.cur # NoEntry
    /\ ex.waiting = "streamEnd"
    /\ ex' = [ex EXCEPT !.cur = NoEntry, !.waiting = "none"]
    /\ UNCHANGED <<config, zip, fonts, pc, nodeName, localFileExisted, muslCalls, err,
                   binding, metaRequests, downloads, extractions, lastMeta,
                   lastStatus, skipped, thrown, archiveOnDisk, dirs, files, opened,
                   starts, history, fontState>>

\* a write stream has flushed: 'finish'.  Under helper A that calls next; under
\* helper B the stream is ended by the pipe only once the entry's stream ended.
WriteFinish(path) ==
    /\ pc # "crashed"
    /\ path \in DOMAIN files
    /\ files[path] = "writing"
    /\ ~(ex.cur.name = path /\ ex.waiting = "streamEnd")
    /\ files' = WriteFile(path, "done")
    /\ ex' = IF ex.cur.name = path /\ ex.waiting = "finish"
             THEN [ex EXCEPT !.cur = NoEntry, !.waiting = "none"]
             ELSE ex
    /\ UNCHANGED <<config, zip, fonts, pc, nodeName, localFileExisted, muslCalls, err,
                   binding, metaRequests, downloads, extractions, lastMeta,
                   lastStatus, skipped, thrown, archiveOnDisk, dirs, opened, starts,
                   history, fontState>>

ExWriteFinish == \E path \in DOMAIN files : WriteFinish(path)

\* a write stream emits 'error'.  Helper A rejects and never calls next;
\* helper B has no listener: the process dies, or the entry's stream stalls.
WriteError(path) ==
    /\ pc # "crashed"
    /\ path \in DOMAIN files
    /\ files[path] = "writing"
    /\ files' = WriteFile(path, "partial")
    /\ IF helper = "A"
       THEN IF ex.cur.name = path /\ ex.promise = "pending"
            THEN /\ ex' = [ex EXCEPT !.promise = "rejected", !.waiting = "none"]
                 /\ AfterExtract(ex.root, "rejected")
            ELSE /\ ex' = [ex EXCEPT !.waiting = IF ex.cur.name = path THEN "none" ELSE @]
                 /\ UNCHANGED <<pc, err, thrown, fontState>>
       ELSE /\ pc' \in {"crashed", pc}
            /\ ex' = [ex EXCEPT !.waiting = IF ex.cur.name = path THEN "none" ELSE @]
            /\ UNCHANGED <<err, thrown, fontState>>
    /\ UNCHANGED <<config, zip, fonts, nodeName, localFileExisted, muslCalls, binding,
                   metaRequests, downloads, extractions, lastMeta, lastStatus, skipped,
                   archiveOnDisk, dirs, opened, starts, history>>

ExWriteError == \E path \in DOMAIN files : WriteError(path)

\* the extractor's 'finish': the archive is exhausted and next was called for
\* the last entry
ExFinish ==
    /\ Running
    /\ ex.cur = NoEntry
    /\ ex' = [ex EXCEPT !.promise = IF @ = "pending" THEN "resolved" ELSE @,
                        !.active = FALSE]
    /\ IF ex.promise = "pending"
       THEN AfterExtract(ex.root, "resolved")
       ELSE UNCHANGED <<pc, err, thrown, fontState>>
    /\ UNCHANGED <<config, zip, fonts, nodeName, localFileExisted, muslCalls, binding,
                   metaRequests, downloads, extractions, lastMeta, lastStatus, skipped,
                   archiveOnDisk, dirs, files, opened, starts, history>>

-----------------------------------------------------------------------------
(* Loading the native module and the fonts *)

\* loadExtraFonts up to its first await: the font directory is loaded; with the
\* marker present the default fonts are loaded at once, else downloadFonts runs
loadExtraFontsBegin(f) ==
    IF f.marker
    THEN [f EXCEPT !.dirLoaded = TRUE, !.defaultLoaded = TRUE, !.task = "done",
                   !.existed = TRUE]
    ELSE [f EXCEPT !.dirLoaded = TRUE, !.task = "download"]

\* require('@ahdg/canvas') on GLOBAL_NATIVE_BINDING_PATH and what start() does
\* with the module.  A missing or incomplete file cannot be loaded; a complete
\* one may still be unusable on the host.
Load ==
    /\ pc = "load"
    /\ \E usable \in BOOLEAN :
         IF /\ nodePath(nodeName) \in DOMAIN files
            /\ files[nodePath(nodeName)] = "done"
            /\ usable
         THEN /\ binding' = TRUE
              /\ err' = err
              /\ IF rev = "index"
                 THEN pc' = "fontDownload" /\ fontState' = fontState
                 ELSE pc' = "done" /\ fontState' = loadExtraFontsBegin(fontState)
         ELSE /\ pc' = "failed"
              /\ err' = getNativeBindingCatch(Error(<<"Cannot find module">>), nodeName)
              /\ UNCHANGED <<binding, fontState>>
    /\ UNCHANGED <<config, zip, fonts, nodeName, localFileExisted, muslCalls,
                   metaRequests, downloads, extractions, lastMeta, lastStatus, skipped,
                   thrown, archiveOnDisk, dirs, files, opened, ex, starts,
                   history>>

\* index.ts: start() awaits the download of the font file, then loads the
\* font directory
FontDownloadIndex ==
    /\ pc = "fontDownload"
    /\ \E outcome \in DownloadResults(TRUE, fontState.marker) :
         /\ fontState' = [fontState EXCEPT
                            !.requests = @ + 1,
                            !.lastStatus = outcome,
                            !.existed = fontState.marker,
                            !.skipped = downloadSkips(TRUE, fontState.marker),
                            !.marker = (@ \/ outcome = "COMPLETE"),
                            !.error = IF outcome = "threw" THEN "Error" ELSE @,
                            !.task = IF outcome = "threw" THEN "noDefault" ELSE "done",
                            !.dirLoaded = (outcome # "threw"),
                            !.defaultLoaded = /\ outcome # "threw"
                                              /\ (fontState.marker \/ outcome = "COMPLETE")]
         /\ IF outcome = "threw"
            THEN pc' = "failed" /\ err' = Error(<<"network">>)
            ELSE pc' = "done" /\ err' = err
    /\ UNCHANGED <<config, zip, fonts, nodeName, localFileExisted, muslCalls, binding,
                   metaRequests, downloads, extractions, lastMeta, lastStatus, skipped,
                   thrown, archiveOnDisk, dirs, files, opened, ex, starts,
                   history>>

\* downloadFonts called by loadExtraFonts: the download, the test of
\* downloadStatus and the start of extractTarGz; any error is caught by
\* loadExtraFonts
FontDownload ==
    /\ pc # "crashed"
    /\ fontState.task = "download"
    /\ \E outcome \in DownloadResults(TRUE, fontState.marker) :
         IF downloadFonts(outcome) = "none"
         THEN /\ fontState' = [fontState EXCEPT !.requests = @ + 1, !.marker = TRUE,
                                                !.lastStatus = outcome,
                                                !.task = "extract"]
              /\ opened' = {}
              /\ ex' = ExBegin(fontDir)
         ELSE /\ fontState' = [fontState EXCEPT !.requests = @ + 1,
                                                !.lastStatus = outcome,
                                                !.error = downloadFonts(outcome),
                                                !.task = "noDefault"]
              /\ UNCHANGED <<opened, ex>>
    /\ UNCHANGED <<config, zip, fonts, pc, nodeName, localFileExisted, muslCalls, err,
                   binding, metaRequests, downloads, extractions, lastMeta,
                   lastStatus, skipped, thrown, archiveOnDisk, dirs, files, starts,
                   history>>

\* the plugin is started again (a new service instance on the same disk)
Restart ==
    /\ pc \in {"done", "failed", "crashed"}
    /\ starts < MaxStarts
    /\ fontState.task \in {"idle", "done", "noDefault"} \/ pc = "crashed"
    /\ ex.promise # "pending" \/ pc = "crashed"
    /\ pc' = "start"
    /\ starts' = starts + 1
    /\ history' = Append(history, [outcome |-> pc, name |-> nodeName])
    /\ nodeName' = None
    /\ localFileExisted' = FALSE
    /\ muslCalls' = 0
    /\ err' = NoError
    /\ binding' = FALSE
    /\ metaRequests' = 0
    /\ downloads' = 0
    /\ extractions' = 0
    /\ lastMeta' = "none"
    /\ lastStatus' = "none"
    /\ skipped' = FALSE
    /\ thrown' = NoError
    /\ opened' = {}
    /\ ex' = ExIdle
    /\ fontState' = FontIdle(fontState.marker)
    /\ files' = IF pc = "crashed"
                THEN [q \in DOMAIN files |-> IF files[q] = "writing" THEN "partial" ELSE files[q]]
                ELSE files
    /\ UNCHANGED <<config, zip, fonts, archiveOnDisk, dirs>>

Next ==
    \/ Start
    \/ Meta
    \/ Download
    \/ LibExtract
    \/ ExError
    \/ ExEntryDirectory
    \/ ExEntryOther
    \/ ExEntryFileA
    \/ ExEntryFileB
    \/ ExStreamEnd
    \/ ExWriteFinish
    \/ ExWriteError
    \/ ExFinish
    \/ Load
    \/ FontDownloadIndex
    \/ FontDownload
    \/ Restart

Spec == Init /\ [][Next]_vars

-----------------------------------------------------------------------------
(* extractZip called on an archive, the service at rest *)

\* the service before its first start()
ServiceAtRest(r) ==
    /\ rev = r
    /\ helper = "A"
    /\ platform = "linux"
    /\ arch = "x64"
    /\ env = DefaultEnv
    /\ pc = "start"
    /\ nodeName = None
    /\ localFileExisted = FALSE
    /\ muslCalls = 0
    /\ err = NoError
    /\ binding = FALSE
    /\ metaRequests = 0
    /\ downloads = 0
    /\ extractions = 0
    /\ lastMeta = "none"
    /\ lastStatus = "none"
    /\ skipped = FALSE
    /\ thrown = NoError
    /\ archiveOnDisk = FALSE
    /\ dirs = {<<>>}
    /\ files = [q \in {} |-> "done"]
    /\ opened = {}
    /\ ex = ExIdle
    /\ starts = 1
    /\ history = <<>>
    /\ fontState = FontIdle(FALSE)

InitZip ==
    /\ ServiceAtRest("part2")
    /\ zip \in {ZipCalled(a) : a \in ZipArchives}
    /\ fonts = FontsIdle

\* fs.readFileSync and unzipSync: they throw, or the loop is entered
ZipRead ==
    /\ zip.state = "called"
    /\ \/ zip' = [zip EXCEPT !.state = "rejected", !.error = "read"]
       \/ zip' = [zip EXCEPT !.state = "loop"]
    /\ UNCHANGED <<service, fonts>>

\* the entry the loop is at and its outputPath
zipEntry == zip.entries[zip.handled + 1]
zipOutputPath == pathJoin(zipOutputDir, segmentsOf(zipEntry.name))

\* the loop body on a name that ends in '/': fs.mkdirSync(outputPath,
\* {recursive: true}), which throws when a file is in the way
ZipEntryDirectory ==
    /\ zip.state = "loop"
    /\ zip.handled < Len(zip.entries)
    /\ endsWithSlash(zipEntry.name)
    /\ IF \E d \in Ancestors(zipOutputPath) : d \in DOMAIN zip.files
       THEN zip' = [zip EXCEPT !.state = "rejected", !.error = "EEXIST",
                               !.handled = @ + 1]
       ELSE zip' = [zip EXCEPT !.dirs = @ \cup Ancestors(zipOutputPath),
                               !.handled = @ + 1]
    /\ UNCHANGED <<service, fonts>>

\* the loop body on any other name: fs.writeFileSync(outputPath,
\* Buffer.from(file)), which throws when the directory of outputPath is
\* missing or outputPath is a directory
ZipEntryFile ==
    /\ zip.state = "loop"
    /\ zip.handled < Len(zip.entries)
    /\ ~endsWithSlash(zipEntry.name)
    /\ IF Parent(zipOutputPath) \notin zip.dirs
       THEN zip' = [zip EXCEPT !.state = "rejected", !.error = "ENOENT",
                               !.handled = @ + 1]
       ELSE IF zipOutputPath \in zip.dirs
       THEN zip' = [zip EXCEPT !.state = "rejected", !.error = "EISDIR",
                               !.handled = @ + 1]
       ELSE zip' = [zip EXCEPT
                      !.files = [q \in DOMAIN zip.files \cup {zipOutputPath} |->
                                   IF q = zipOutputPath
                                   THEN BufferFrom(zipEntry.data)
                                   ELSE zip.files[q]],
                      !.handled = @ + 1]
    /\ UNCHANGED <<service, fonts>>

\* the loop is through: the async function returns
ZipReturn ==
    /\ zip.state = "loop"
    /\ zip.handled = Len(zip.entries)
    /\ zip' = [zip EXCEPT !.state = "resolved"]
    /\ UNCHANGED <<service, fonts>>

NextZip ==
    \/ ZipRead
    \/ ZipEntryDirectory
    \/ ZipEntryFile
    \/ ZipReturn

SpecZip == InitZip /\ [][NextZip]_vars

-----------------------------------------------------------------------------
(* The font list of a service whose binding is wired, and the commands *)

InitFonts ==
    /\ \E r \in {"part1", "part2"} : ServiceAtRest(r)
    /\ zip = ZipIdle
    /\ fonts \in {FontsWired(d, m) : d \in SUBSET FontNames, m \in BOOLEAN}

\* start() from the assignment of fontsArray on, and loadExtraFonts up to its
\* first await: with the marker there it runs to its end
FontsStart ==
    /\ fonts.state = "wired"
    /\ LET extraFontNum == Cardinality(fonts.dirFonts)
           withDir == registerAll(fonts.families, fonts.dirFonts)
           withDefault == registerAll(withDir, {DefaultFamily})
       IN  IF fonts.marker
           THEN fonts' = [fonts EXCEPT !.state = "ready",
                                       !.extraFontNum = extraFontNum,
                                       !.families = withDefault,
                                       !.fontsArray = moveToFront(withDefault, extraFontNum + 1)]
           ELSE fonts' = [fonts EXCEPT !.state = "downloading",
                                       !.extraFontNum = extraFontNum,
                                       !.families = withDir,
                                       !.fontsArray = fonts.families]
    /\ UNCHANGED <<service, zip>>

\* loadExtraFonts after await downloadFonts: on an error it returns, else the
\* default fonts are loaded and the list is rebuilt
FontsDownloaded ==
    /\ fonts.state = "downloading"
    /\ \/ fonts' = [fonts EXCEPT !.state = "ready"]
       \/ LET withDefault == registerAll(fonts.families, {DefaultFamily}) IN
          fonts' = [fonts EXCEPT !.state = "ready",
                                 !.marker = TRUE,
                                 !.families = withDefault,
                                 !.fontsArray = moveToFront(withDefault, fonts.extraFontNum + 1)]
    /\ UNCHANGED <<service, zip>>

\* the command 'canvas -r'
CanvasRefresh ==
    /\ fonts.state \in {"downloading", "ready"}
    /\ fonts.commands < MaxCommands
    /\ fonts' = [fonts EXCEPT !.fontsArray = fonts.families, !.commands = @ + 1]
    /\ UNCHANGED <<service, zip>>

\* the command 'registerFont <fontUrl>' of part_001 up to await downloadFonts
RegisterFontBegin ==
    /\ rev = "part1"
    /\ fonts.state \in {"downloading", "ready"}
    /\ fonts.register = "none"
    /\ fonts.commands < MaxCommands
    /\ \E f \in FontNames :
         fonts' = [fonts EXCEPT !.register = f, !.commands = @ + 1]
    /\ UNCHANGED <<service, zip>>

\* registerFont after await downloadFonts.  A download of a file that is
\* there already is skipped and raises; otherwise it raises or the file is
\* saved.  GlobalFonts.registerFromPath is then given the directory: the
\* library registers its fonts, or nothing; the last family is put in front
\* of the list.
RegisterFontEnd ==
    /\ fonts.register # "none"
    /\ \/ fonts' = [fonts EXCEPT !.register = "none"]
       \/ /\ ~downloadSkips(TRUE, fonts.register \in fonts.dirFonts)
          /\ \E registered \in BOOLEAN :
               LET onDisk == fonts.dirFonts \cup {fonts.register}
                   loadedFonts == IF registered
                                  THEN registerAll(fonts.families, onDisk)
                                  ELSE fonts.families
               IN  fonts' = [fonts EXCEPT !.register = "none",
                                          !.dirFonts = onDisk,
                                          !.families = loadedFonts,
                                          !.fontsArray = <<Last(loadedFonts)>> \o @]
    /\ UNCHANGED <<service, zip>>

NextFonts ==
    \/ FontsStart
    \/ FontsDownloaded
    \/ CanvasRefresh
    \/ RegisterFontBegin
    \/ RegisterFontEnd

SpecFonts == InitFonts /\ [][NextFonts]_vars

-----------------------------------------------------------------------------
(* Platform resolution: C1, C9, C10 *)

\* the supported table
SupportedArchs ==
    [android |-> {"arm64", "arm"},
     win32 |-> {"x64", "ia32", "arm64"},
     darwin |-> {"x64", "arm64"},
     freebsd |-> {"x64"},
     linux |-> {"x64", "arm64", "arm"}]
IsSupported(p, a) == p \in DOMAIN SupportedArchs /\ a \in SupportedArchs[p]
\* the libc flavor is part of the key on linux x64 and arm64 only
LibcInKey(p, a) == p = "linux" /\ a \in {"x64", "arm64"}

\* C1: platform resolution is total and fails closed.  For a pair of the
\* supported table no UnsupportedError is raised, a call that got past
\* resolution has selected a name, it is the name every earlier call selected,
\* and another key (platform, arch, libc flavor where the flavor is part of
\* the key) has that name exactly when it is the same key.  For a pair outside
\* the table the call fails with UnsupportedError, no name is ever selected and
\* no request, download, extraction or load ever happens.
C1_ResolutionTotalFailsClosed ==
    IF IsSupported(platform, arch)
    THEN /\ err.kind # "UnsupportedError"
         /\ pc \notin {"start", "crashed"} => nodeName # None
         /\ nodeName # None =>
              \A i \in DOMAIN history : history[i].name \in {None, nodeName}
         /\ (pc \in {"meta", "load"} /\ metaRequests = 0) =>
              \A p2 \in Platforms, a2 \in Archs, e2 \in LibcEnvs :
                LET other == Resolve(rev, p2, a2, e2) IN
                other.kind = "name" =>
                  (other.name = nodeName <=>
                     /\ p2 = platform
                     /\ a2 = arch
                     /\ LibcInKey(p2, a2) => isMusl(rev, e2) = isMusl(rev, env))
    ELSE /\ pc \in {"start", "failed"}
         /\ pc = "failed" => err.kind = "UnsupportedError"
         /\ nodeName = None
         /\ metaRequests = 0 /\ downloads = 0 /\ extractions = 0
         /\ lastMeta = "none" /\ lastStatus = "none"
         /\ ~binding

\* a known platform with an architecture not listed under it has been refused
C1_Witness ==
    /\ pc = "failed"
    /\ platform = "win32" /\ arch = "mips"
    /\ err.kind = "UnsupportedError"

\* C9: on linux x64 and arm64 the selected name ends in '-gnu' when isMusl()
\* returns false and in '-musl' when it returns true; on linux arm the name is
\* 'skia.linux-arm-gnueabihf' whatever isMusl() would return.
C9_LinuxLibcSuffix ==
    (platform = "linux" /\ nodeName # None) =>
      /\ (arch \in {"x64", "arm64"} /\ ~isMusl(rev, env)) => EndsWith(nodeName, <<"-", "gnu">>)
      /\ (arch \in {"x64", "arm64"} /\ isMusl(rev, env)) => EndsWith(nodeName, <<"-", "musl">>)
      /\ arch = "arm" => nodeName = <<"skia", ".", "linux", "-", "arm", "-", "gnueabihf">>

\* glibc was detected on linux x64 and a name was selected
C9_Witness ==
    /\ platform = "linux" /\ arch = "x64"
    /\ ~isMusl(rev, env)
    /\ nodeName = <<"skia", ".", "linux", "-", "x64", "-", "gnu">>

\* C10: the message of every UnsupportedError contains the value of
\* process.platform and the value of process.arch.
C10_UnsupportedCarriesPlatformAndArch ==
    err.kind = "UnsupportedError" =>
      /\ Contains(err.message, platform)
      /\ Contains(err.message, arch)

-----------------------------------------------------------------------------
(* The installer: C2, C3, C4, C7, C8 *)

\* C2: when the binary existed at the call, getNativeBinding makes no
\* metadata request and no download, starts no extraction and goes straight to
\* loading the module; a call that follows a successful start makes no request.
C2_InstallerIdempotence ==
    /\ localFileExisted =>
         /\ metaRequests = 0 /\ downloads = 0 /\ extractions = 0
         /\ lastMeta = "none" /\ lastStatus = "none"
         /\ pc \notin {"meta", "download", "extract"}
         /\ thrown = NoError
    /\ (history # <<>> /\ Last(history).outcome = "done") =>
         /\ metaRequests = 0 /\ downloads = 0 /\ extractions = 0
         /\ pc \notin {"meta", "download", "extract"}

\* the second start after a successful one found the binary and loaded it
C2_Witness ==
    /\ Len(history) = 1
    /\ history[1].outcome = "done"
    /\ localFileExisted
    /\ pc = "done"
    /\ binding

\* a download of fonts failed / of the binding failed
FontFetchFailed == fontState.lastStatus = "threw"
BindingFetchFailed == lastMeta = "fail" \/ lastStatus \in {"threw", "ABORTED"}

\* C3: a failed font download never makes start() fail: start has completed,
\* the binding is exposed and the fonts of the font directory are loaded; a
\* failed metadata request or download of the binding makes start() fail and
\* leaves the service without the binding.
C3_FailureIsolation ==
    /\ FontFetchFailed => (pc = "done" /\ binding /\ fontState.dirLoaded)
    /\ BindingFetchFailed => (pc = "failed" /\ ~binding)

\* C4: an extraction is started only after a download that reported COMPLETE;
\* after any other terminal status no extraction is started, handleFile
\* (downloadFonts) has raised DownloadError and there was one download only.
C4_ExtractOnlyAfterComplete ==
    /\ (extractions > 0 \/ pc = "extract") => lastStatus = "COMPLETE"
    /\ (ex.promise # "none" /\ ex.root = nodeDir) => lastStatus = "COMPLETE"
    /\ (ex.promise # "none" /\ ex.root = fontDir) => fontState.lastStatus = "COMPLETE"
    /\ lastStatus \notin {"none", "threw", "COMPLETE"} =>
         /\ extractions = 0
         /\ ex.promise = "none"
         /\ thrown.kind = "DownloadError"
         /\ err.kind = "DownloadError"
         /\ pc \in {"failed", "crashed"}
    /\ (rev # "index" /\ fontState.lastStatus \notin {"none", "threw", "COMPLETE"}) =>
         /\ fontState.error = "DownloadError"
         /\ fontState.task = "noDefault"
         /\ ex.root # fontDir
    /\ downloads <= 1
    /\ extractions <= downloads
    /\ rev # "index" => fontState.requests <= 1

\* the download of the binding ended ABORTED and handleFile raised
C4_Witness ==
    /\ lastStatus = "ABORTED"
    /\ downloads = 1
    /\ thrown.kind = "DownloadError"
    /\ pc = "failed"

\* C7: when the metadata request fails or the response has no tarball URL
\* (no dist object, no dist.tarball, an empty one) handleFile raises
\* DownloadError and no download is started.
C7_NoTarballRaisesDownloadError ==
    lastMeta \in {"fail", "nodist", "notarball", "empty"} =>
      /\ thrown.kind = "DownloadError"
      /\ downloads = 0
      /\ lastStatus = "none"
      /\ pc = "failed"

\* C8: a failed metadata request, a download that throws and a download
\* that ends with another status than COMPLETE all reach the caller of
\* getNativeBinding as DownloadError; the generic 'Failed to use' error is
\* raised only when handleFile raised nothing.
C8_FetchFailureIsDownloadError ==
    /\ BindingFetchFailed => err.kind = "DownloadError"
    /\ Contains(err.message, "Failed to use ") => thrown = NoError

-----------------------------------------------------------------------------
(* extractTarGz: C5, C6 *)

Written(path) == path \in DOMAIN files /\ files[path] = "done"

\* C5: a write is in flight only for the entry the extractor is at, and once
\* the promise of extractTarGz is resolved, and when the module is loaded
\* after an extraction, every file the extraction opened is completely written.
C5_AdvanceOnlyAfterWriteFinished ==
    /\ \A path \in DOMAIN files : files[path] = "writing" => ex.cur.name = path
    /\ ex.promise = "resolved" => \A path \in opened : Written(path)
    /\ (pc = "load" /\ extractions > 0 /\ rev # "index") =>
         \A path \in opened : Written(path)

\* C6: the directory a file entry is written into exists when the write
\* stream of the file is opened.
C6_ParentDirectoryBeforeWrite ==
    \A path \in opened : Parent(path) \in dirs

-----------------------------------------------------------------------------
(* libc detection: C17, C18 *)

\* C17: in one platform resolution isMusl() is executed at most once, and it
\* is executed only when the platform is linux and the architecture is x64 or
\* arm64.
C17_LibcDetectedAtMostOnce ==
    /\ muslCalls <= 1
    /\ muslCalls > 0 => LibcInKey(platform, arch)

\* what the stated priority makes of a host: with a system report, musl
\* exactly when the report has no glibcVersionRuntime; without one, musl when
\* the loader cannot be located or read, or when its text contains 'musl'
MuslByPriority(e) ==
    IF e.hasReport
    THEN ~e.glibcVersionRuntime
    ELSE e.ldd = "throws" \/ e.ldd = "musl"

\* C18: the libc flavor a resolution on linux x64 / arm64 selected is the one
\* the stated priority gives (system report first, then the loader file,
\* musl when the loader lookup or read fails), and the detection raises
\* nothing: the only error a resolution ends in is UnsupportedError.
C18_LibcPriorityAndDefault ==
    /\ (LibcInKey(platform, arch) /\ nodeName # None) =>
         (EndsWith(nodeName, <<"-", "musl">>) <=> MuslByPriority(env))
    /\ (pc = "failed" /\ nodeName = None) => err.kind = "UnsupportedError"

-----------------------------------------------------------------------------
(* extractTarGz, errors and settling: C11, C19 *)

\* a write of this extraction has failed on path
WriteFailed(path) == path \in DOMAIN files /\ files[path] = "partial"

\* C11: once the write of a file entry has failed, the promise of extractTarGz
\* is rejected (and so never resolved), the extractor is still at that entry
\* (no later entry is handled) and every other file the extraction opened is
\* still on disk, completely written.
C11_WriteErrorAborts ==
    \A path \in opened :
      WriteFailed(path) =>
        /\ ex.promise = "rejected"
        /\ ex.cur.name = path
        /\ \A q \in opened \ {path} : Written(q)

\* the extraction has a step left that leads on to settling its promise: the
\* parser is between entries, or the event next waits for can still happen
CanSettle ==
    /\ pc # "crashed"
    /\ \/ ex.cur = NoEntry
       \/ ex.waiting = "streamEnd"
       \/ /\ ex.waiting = "finish"
          /\ ex.cur.name \in DOMAIN files
          /\ files[ex.cur.name] = "writing"

\* C19: a pending promise of extractTarGz can always still settle (it is never
\* left pending with no event to come, as after a failed write that keeps next
\* from being called), and a settled promise keeps its outcome: it is never
\* resolved after it was rejected, nor rejected after it was resolved.
C19_PromiseSettlesOnce ==
    /\ [](ex.promise = "pending" => CanSettle)
    /\ [][(ex.promise \in {"resolved", "rejected"} /\ ex'.promise \in {"resolved", "rejected"})
            => ex'.promise = ex.promise]_vars

-----------------------------------------------------------------------------
(* Idempotence of the font installation and of the fetch: C13, C15 *)

\* C13: when the file of the default font download was already in the font
\* directory as the font installation of a start began, that installation
\* makes no download call, and the fonts of the font directory and the default
\* fonts are loaded.
C13_FontIdempotence ==
    fontState.existed =>
      /\ fontState.requests = 0
      /\ fontState.dirLoaded
      /\ fontState.defaultLoaded

\* C15: a download the library skipped because the file was already there is a
\* success: handleFile raises nothing for it and goes on to the extraction, and
\* the font installation records no error for it.
C15_SkippedFetchIsSuccess ==
    /\ (skipped /\ lastStatus # "threw") =>
         /\ thrown.kind # "DownloadError"
         /\ err.kind # "DownloadError"
         /\ extractions = 1
    /\ (fontState.skipped /\ fontState.lastStatus # "threw") =>
         fontState.error = "none"

-----------------------------------------------------------------------------
(* Extraction stays inside its directory: C14 *)

\* path is dir or lies below it
Inside(dir, path) == Len(path) >= Len(dir) /\ SubSeq(path, 1, Len(dir)) = dir

\* C14: every directory and file on disk, and every path a write stream was
\* opened on, lies inside one of the two directories tar archives are unpacked
\* in, and every directory and file extractZip made lies inside the directory
\* of its archive (the base directory itself is there from the beginning).
C14_NothingOutsideDestination ==
    /\ \A path \in (dirs \cup DOMAIN files \cup opened) \ {<<>>} :
         Inside(<<nodeDir>>, path) \/ Inside(<<fontDir>>, path)
    /\ \A path \in (zip.dirs \cup DOMAIN zip.files) \ {<<>>} :
         Inside(zipOutputDir, path)

-----------------------------------------------------------------------------
(* extractZip: C12 *)

\* C12: of the entries extractZip has handled, each whose name ends in '/' is
\* a directory on disk together with the directories above it, and each other
\* one is a file on disk whose bytes are the entry's; the only error the call
\* ends in is an archive that cannot be read or decompressed, so the archive
\* of a directory marker and a file below it yields both, and the archive of
\* the single entry 'fonts/' makes the directory and resolves.
C12_ZipEntriesMaterialized ==
    /\ \A i \in 1..zip.handled :
         LET e == zip.entries[i]
             outputPath == pathJoin(zipOutputDir, segmentsOf(e.name))
         IN  IF endsWithSlash(e.name)
             THEN Ancestors(outputPath) \subseteq zip.dirs
             ELSE /\ outputPath \in DOMAIN zip.files
                  /\ zip.files[outputPath] = e.data
    /\ zip.state = "rejected" => zip.error = "read"

-----------------------------------------------------------------------------
(* The font list: C16 *)

\* no font load operation is under way
FontsQuiescent == fonts.state = "ready" /\ fonts.register = "none"

\* C16: whenever no font load operation is under way, the font list of the
\* service holds exactly the families the library reports, each of them once.
C16_FontListIsLibraryFamilies ==
    FontsQuiescent =>
      /\ Elements(fonts.fontsArray) = Elements(fonts.families)
      /\ Len(fonts.fontsArray) = Cardinality(Elements(fonts.fontsArray))

=============================================================================
